---- MODULE Spec2Model ----
(***************************************************************************)
(* Model of src/commands/list.ts: the list command.  run() calls one or *)
(* both client inspectors (listClaudeServers, listContinueServers); each   *)
(* reads a client's config file, reconciles the installed servers with    *)
(* the registry servers, logs a section and returns whether it listed    *)
(* anything.                                                               *)
(***************************************************************************)
EXTENDS Integers, Sequences, FiniteSets, TLC

(***************************************************************************)
(* Bounds of the input domains.                                            *)
(***************************************************************************)
MaxServers == 2      \* registry entries
MaxInstalled == 2    \* entries of experimental.modelContextProtocolServers
MaxKeys == 2         \* keys of mcpServers

SeqsUpTo(S, n) == UNION {[1..k -> S] : k \in 0..n}

Range(s) == {s[i] : i \in 1..Len(s)}

Min(a, b) == IF a <= b THEN a ELSE b

(***************************************************************************)
(* The registry (servers, imported on line 6): an ordered list of        *)
(* {id, config: {command, args}} with unique ids.                          *)
(***************************************************************************)
Commands == {"npx", "node"}

\* argument lists of installed entries
ArgLists == {<<>>, <<"-y", "fs">>, <<"-y", "fs", "--verbose">>, <<"-y", "gh">>}

\* argument templates of registry entries
TemplateArgs == ArgLists \cup {<<"gh", "fs">>}

Configs == [command : Commands, args : TemplateArgs]

\* the id of the i-th registry entry: ids are unique by construction
ServerIds == <<"fs", "gh", "db", "kv">>

RegistriesOver(C) ==
    {[i \in 1..Len(cs) |-> [id |-> ServerIds[i], config |-> cs[i]]] :
        cs \in SeqsUpTo(C, MaxServers)}

Registries == RegistriesOver(Configs)

(***************************************************************************)
(* Errors.  The catch blocks look at code only; name tells the thrower *)
(* apart (fs error, SyntaxError of JSON.parse, TypeError of a property     *)
(* read on null).                                                          *)
(***************************************************************************)
NoError == [name |-> "none", hasCode |-> FALSE, code |-> "none"]

FsError(c) == [name |-> "Error", hasCode |-> TRUE, code |-> c]

SyntaxError == [name |-> "SyntaxError", hasCode |-> FALSE, code |-> "none"]

TypeError == [name |-> "TypeError", hasCode |-> FALSE, code |-> "none"]

(***************************************************************************)
(* A config file: io is the outcome of reading it ("ok", or the code of  *)
(* the fs error), valid whether its text is JSON, config the value the *)
(* text denotes.  A value is null, an object, or another value ("scalar":  *)
(* a property read on it yields undefined).                                *)
(***************************************************************************)
IoOutcomes == {"ok", "ENOENT", "EACCES"}

JsonTypes == {"null", "scalar", "object"}

\* keys of mcpServers: names, none of them a canonical array index, so that
\* Object.keys returns them in the order of the file
Keys == Range(ServerIds) \cup {"ghost"}

KeyLists == {ks \in SeqsUpTo(Keys, MaxKeys) :
                \A i, j \in 1..Len(ks) : i # j => ks[i] # ks[j]}

ClaudeConfig(t, has, ks) == [t |-> t, hasMcpServers |-> has, mcpServers |-> ks]

ClaudeFile(io, valid, cfg) == [io |-> io, valid |-> valid, config |-> cfg]

ClaudeConfigs ==
    {ClaudeConfig("null", FALSE, <<>>), ClaudeConfig("scalar", FALSE, <<>>),
     ClaudeConfig("object", FALSE, <<>>)}
    \cup {ClaudeConfig("object", TRUE, ks) : ks \in KeyLists}

ClaudeFiles ==
    {ClaudeFile(io, FALSE, ClaudeConfig("null", FALSE, <<>>)) : io \in IoOutcomes}
    \cup {ClaudeFile("ok", TRUE, c) : c \in ClaudeConfigs}

Transports == [command : Commands, args : ArgLists]

InstalledOver(T) == SeqsUpTo([transport : T], MaxInstalled)

ContinueConfig(t, hasExp, hasList, l) ==
    [t |-> t, hasExperimental |-> hasExp, hasList |-> hasList,
     modelContextProtocolServers |-> l]

ContinueFile(io, valid, cfg) == [io |-> io, valid |-> valid, config |-> cfg]

ContinueConfigsOver(T) ==
    {ContinueConfig("null", FALSE, FALSE, <<>>),
     ContinueConfig("scalar", FALSE, FALSE, <<>>),
     ContinueConfig("object", FALSE, FALSE, <<>>),
     ContinueConfig("object", TRUE, FALSE, <<>>)}
    \cup {ContinueConfig("object", TRUE, TRUE, l) : l \in InstalledOver(T)}

ContinueFilesOver(T) ==
    {ContinueFile(io, FALSE, ContinueConfig("null", FALSE, FALSE, <<>>)) :
        io \in IoOutcomes}
    \cup {ContinueFile("ok", TRUE, c) : c \in ContinueConfigsOver(T)}

(***************************************************************************)
(* Logged lines.                                                           *)
(***************************************************************************)
clientDisplayNames(c) == IF c = "claude" THEN "Claude Desktop" ELSE "Continue"

Last == "+-- "

Mid == "|-- "

HeaderLine(c) == [kind |-> "header", prefix |-> "", text |-> clientDisplayNames(c)]

LinkLine(p, id) == [kind |-> "link", prefix |-> p, text |-> id]

UnknownLine(p, id) == [kind |-> "unknown", prefix |-> p, text |-> id]

NoneLine(c) == [kind |-> "none", prefix |-> "", text |-> c]

BlankLine == [kind |-> "blank", prefix |-> "", text |-> ""]

(***************************************************************************)
(* Outcome of a step or of an inspector: it threw error, or returned     *)
(* value; logged is what it logged on the way.                         *)
(***************************************************************************)
Returned(v, lines) == [invoked |-> TRUE, threw |-> FALSE, error |-> NoError,
                       value |-> v, logged |-> lines]

Threw(e, lines) == [invoked |-> TRUE, threw |-> TRUE, error |-> e,
                    value |-> FALSE, logged |-> lines]

NotInvoked == [invoked |-> FALSE, threw |-> FALSE, error |-> NoError,
               value |-> FALSE, logged |-> <<>>]

\* fs.readFile(configPath, 'utf8')
readFile(file) == IF file.io = "ok" THEN NoError ELSE FsError(file.io)

\* JSON.parse(configContent)
JSONparse(file) == IF file.valid THEN NoError ELSE SyntaxError

\* mutant of isENOENT: every error that carries a code counts as "no file"
isAnyCode(error) == error.name # "none" /\ error.hasCode

\* the test of both catch blocks
isENOENT(error) == error.name # "none" /\ error.hasCode /\ error.code = "ENOENT"

\* catch (error) { if (...ENOENT) return false; throw error }
catchBlock(error, lines) ==
    IF isENOENT(error) THEN Returned(FALSE, lines) ELSE Threw(error, lines)

(***************************************************************************)
(* listClaudeServers (lines 63-110).                                       *)
(***************************************************************************)
\* Object.keys(config.mcpServers || {})
ObjectKeys(config) ==
    IF config.t = "object" /\ config.hasMcpServers THEN config.mcpServers ELSE <<>>

\* mutant of isRegistered: only the first registry entry is looked at
isFirstRegistered(id, servers) == Len(servers) > 0 /\ servers[1].id = id

\* servers.some(s => s.id === id)
isRegistered(id, servers) == \E i \in 1..Len(servers) : servers[i].id = id

registeredOf(installedServers, servers) ==
    LET keep(id) == isRegistered(id, servers) IN SelectSeq(installedServers, keep)

unknownOf(installedServers, servers) ==
    LET keep(id) == ~isRegistered(id, servers) IN SelectSeq(installedServers, keep)

\* the two display loops (lines 85-95)
claudeLines(registeredServers, unknownServers) ==
    [i \in 1..Len(registeredServers) |->
        LinkLine(IF i = Len(registeredServers) /\ Len(unknownServers) = 0
                 THEN Last ELSE Mid, registeredServers[i])]
    \o [i \in 1..Len(unknownServers) |->
        UnknownLine(IF i = Len(unknownServers) THEN Last ELSE Mid, unknownServers[i])]

\* the try block (lines 73-100)
claudeTry(file, servers) ==
    IF readFile(file) # NoError THEN Threw(readFile(file), <<>>)
    ELSE IF JSONparse(file) # NoError THEN Threw(JSONparse(file), <<>>)
    ELSE IF file.config.t = "null" THEN Threw(TypeError, <<>>)
    ELSE LET installedServers == ObjectKeys(file.config)
             registeredServers == registeredOf(installedServers, servers)
             unknownServers == unknownOf(installedServers, servers)
         IN  IF Len(installedServers) > 0
             THEN Returned(TRUE, <<HeaderLine("claude")>>
                                 \o claudeLines(registeredServers, unknownServers))
             ELSE Returned(FALSE, <<>>)

listClaudeServers(file, servers) ==
    LET r == claudeTry(file, servers)
    IN  IF r.threw THEN catchBlock(r.error, r.logged) ELSE r

(***************************************************************************)
(* listContinueServers (lines 112-160).                                    *)
(***************************************************************************)
\* config.experimental?.modelContextProtocolServers || []
installedOf(config) ==
    IF config.t = "object" /\ config.hasExperimental /\ config.hasList
    THEN config.modelContextProtocolServers ELSE <<>>

\* args.slice(0, n)
slice(args, n) == SubSeq(args, 1, Min(n, Len(args)))

RECURSIVE joinQuoted(_)
joinQuoted(a) ==
    IF Len(a) = 0 THEN <<>>
    ELSE IF Len(a) = 1 THEN <<"\"", a[1], "\"">>
    ELSE <<"\"", a[1], "\"", ",">> \o joinQuoted(Tail(a))

\* JSON.stringify of an array of strings, as the sequence of its tokens
JSONstringify(a) == <<"[">> \o joinQuoted(a) \o <<"]">>

\* mutant of matches: the arguments are compared whole, without slice
matchesWhole(installed, registryServer) ==
    /\ installed.transport.command = registryServer.config.command
    /\ JSONstringify(installed.transport.args)
         = JSONstringify(registryServer.config.args)

\* the predicate of installedServers.some (lines 130-131)
matches(installed, registryServer) ==
    /\ installed.transport.command = registryServer.config.command
    /\ JSONstringify(slice(installed.transport.args, Len(registryServer.config.args)))
         = JSONstringify(registryServer.config.args)

\* servers.filter(r => installedServers.some(...)).map(s => s.id) (lines 127-134)
validServersOf(installedServers, servers) ==
    LET keep(registryServer) ==
            \E j \in 1..Len(installedServers) :
                matches(installedServers[j], registryServer)
        kept == SelectSeq(servers, keep)
    IN  [i \in 1..Len(kept) |-> kept[i].id]

\* the display loop (lines 140-144)
continueLines(validServers) ==
    [i \in 1..Len(validServers) |->
        LinkLine(IF i = Len(validServers) THEN Last ELSE Mid, validServers[i])]

\* mutant of continueTry: the header is logged before the file is looked at
continueTryHeaderFirst(file, servers) ==
    LET head == <<HeaderLine("continue")>>
    IN  IF readFile(file) # NoError THEN Threw(readFile(file), head)
        ELSE IF JSONparse(file) # NoError THEN Threw(JSONparse(file), head)
        ELSE IF file.config.t = "null" THEN Threw(TypeError, head)
        ELSE LET validServers == validServersOf(installedOf(file.config), servers)
             IN  IF Len(validServers) > 0
                 THEN Returned(TRUE, head \o continueLines(validServers))
                 ELSE Returned(FALSE, head)

\* the try block (lines 120-149)
continueTry(file, servers) ==
    IF readFile(file) # NoError THEN Threw(readFile(file), <<>>)
    ELSE IF JSONparse(file) # NoError THEN Threw(JSONparse(file), <<>>)
    ELSE IF file.config.t = "null" THEN Threw(TypeError, <<>>)
    ELSE LET installedServers == installedOf(file.config)
             validServers == validServersOf(installedServers, servers)
         IN  IF Len(validServers) > 0
             THEN Returned(TRUE, <<HeaderLine("continue")>> \o continueLines(validServers))
             ELSE Returned(FALSE, <<>>)

listContinueServers(file, servers) ==
    LET r == continueTry(file, servers)
    IN  IF r.threw THEN catchBlock(r.error, r.logged) ELSE r

(***************************************************************************)
(* run() (lines 33-61).                                                    *)
(***************************************************************************)
VARIABLES
    servers,        \* the registry
    client,         \* flags.client: "claude", "continue" or "none" (no flag)
    claudeFile,     \* claude_desktop_config.json
    continueFile,   \* ~/.continue/config.json
    pc,             \* position in run(): "start", "second", "report", "done", "failed"
    foundServers,   \* line 36
    out,            \* the lines logged so far
    error,          \* what run() rejected with, NoError until then
    claudeRes,      \* outcome of the call of listClaudeServers, NotInvoked before
    continueRes     \* outcome of the call of listContinueServers, NotInvoked before

vars == <<servers, client, claudeFile, continueFile, pc, foundServers, out, error,
          claudeRes, continueRes>>

env == <<servers, client, claudeFile, continueFile>>

Clients == {"claude", "continue", "none"}

\* mutant of catchFalse: the rejection is not caught
catchNothing(r) == r

\* promise.catch(() => false) (lines 47-48)
catchFalse(r) == IF r.threw THEN Returned(FALSE, r.logged) ELSE r

\* mutant of Track: foundServers is overwritten instead of or-ed
TrackOverwrite(r, next) ==
    /\ out' = out \o r.logged
    /\ IF r.threw
       THEN /\ pc' = "failed"
            /\ error' = r.error
            /\ foundServers' = foundServers
       ELSE /\ pc' = next
            /\ error' = error
            /\ foundServers' = r.value

\* trackServers(await p): a rejection of p ends run(), a value is or-ed in
Track(r, next) ==
    /\ out' = out \o r.logged
    /\ IF r.threw
       THEN /\ pc' = "failed"
            /\ error' = r.error
            /\ foundServers' = foundServers
       ELSE /\ pc' = next
            /\ error' = error
            /\ foundServers' = (foundServers \/ r.value)

\* mutant of RunClaude: the rejection is caught, as on line 47
RunClaudeCaught ==
    /\ pc = "start" /\ client = "claude"
    /\ claudeRes' = listClaudeServers(claudeFile, servers)
    /\ Track(catchFalse(claudeRes'), "report")
    /\ UNCHANGED <<env, continueRes>>

\* line 42
RunClaude ==
    /\ pc = "start" /\ client = "claude"
    /\ claudeRes' = listClaudeServers(claudeFile, servers)
    /\ Track(claudeRes', "report")
    /\ UNCHANGED <<env, continueRes>>

\* line 44
RunContinue ==
    /\ pc = "start" /\ client = "continue"
    /\ continueRes' = listContinueServers(continueFile, servers)
    /\ Track(continueRes', "report")
    /\ UNCHANGED <<env, claudeRes>>

\* line 47
RunAllClaude ==
    /\ pc = "start" /\ client = "none"
    /\ claudeRes' = listClaudeServers(claudeFile, servers)
    /\ Track(catchFalse(claudeRes'), "second")
    /\ UNCHANGED <<env, continueRes>>

\* line 48
RunAllContinue ==
    /\ pc = "second"
    /\ continueRes' = listContinueServers(continueFile, servers)
    /\ Track(catchFalse(continueRes'), "report")
    /\ UNCHANGED <<env, claudeRes>>

\* lines 51-60
Report ==
    /\ pc = "report"
    /\ out' = out \o (IF ~foundServers THEN <<NoneLine(client)>> ELSE <<>>)
                  \o <<BlankLine>>
    /\ pc' = "done"
    /\ UNCHANGED <<env, foundServers, error, claudeRes, continueRes>>

InitOver(R, CF, KF, C) ==
    /\ servers \in R
    /\ claudeFile \in CF
    /\ continueFile \in KF
    /\ client \in C
    /\ pc = "start"
    /\ foundServers = FALSE
    /\ out = <<>>
    /\ error = NoError
    /\ claudeRes = NotInvoked
    /\ continueRes = NotInvoked

(***************************************************************************)
(* Spec: the command under every flag and every state of the two files,    *)
(* over a registry and Continue entries drawn from RunConfigs.             *)
(***************************************************************************)
RunConfigs == {[command |-> "npx", args |-> <<"-y", "fs">>],
               [command |-> "npx", args |-> <<"-y", "gh">>]}

RunTransports == {[command |-> "npx", args |-> <<"-y", "fs", "--verbose">>],
                  [command |-> "node", args |-> <<"-y", "gh">>]}

Init == InitOver(RegistriesOver(RunConfigs), ClaudeFiles,
                 ContinueFilesOver(RunTransports), Clients)

Next == RunClaude \/ RunContinue \/ RunAllClaude \/ RunAllContinue \/ Report

Spec == Init /\ [][Next]_vars

(***************************************************************************)
(* SpecContinue: list --client=continue over every registry and every     *)
(* list of installed entries, the file being readable JSON.                *)
(***************************************************************************)
InitContinue ==
    InitOver(Registries,
             {ClaudeFile("ENOENT", FALSE, ClaudeConfig("null", FALSE, <<>>))},
             {ContinueFile("ok", TRUE, ContinueConfig("object", TRUE, TRUE, l)) :
                 l \in InstalledOver(Transports)},
             {"continue"})

NextContinue == RunContinue \/ Report

SpecContinue == InitContinue /\ [][NextContinue]_vars

(***************************************************************************)
(* What the claims speak of.                                               *)
(***************************************************************************)
IsEntry(line) == line.kind \in {"link", "unknown"}

EntryLines(lines) == SelectSeq(lines, IsEntry)

IsLink(line) == line.kind = "link"

\* the ids an inspector reported as recognized, in the order of its output
ReportedIds(lines) ==
    LET links == SelectSeq(lines, IsLink) IN [i \in 1..Len(links) |-> links[i].text]

RegistryIds == {servers[i].id : i \in 1..Len(servers)}

\* the reference has the command of r and its arguments begin with those of r
PrefixMatch(ref, r) ==
    /\ ref.transport.command = r.config.command
    /\ Len(ref.transport.args) >= Len(r.config.args)
    /\ \A k \in 1..Len(r.config.args) : ref.transport.args[k] = r.config.args[k]

Installed == continueFile.config.modelContextProtocolServers

McpKeys == claudeFile.config.mcpServers

ContinueOk == continueRes.invoked /\ ~continueRes.threw

ClaudeOk == claudeRes.invoked /\ ~claudeRes.threw

\* unreadable, or not JSON
ConfigUnavailable(file) ==
    file.io \notin {"ok", "ENOENT"} \/ (file.io = "ok" /\ ~file.valid)

ReadError(file) == IF file.io # "ok" THEN FsError(file.io) ELSE SyntaxError

HasNoneLine == \E i \in 1..Len(out) : out[i].kind = "none"

\* the lines of an inspector that did not fail
OkLines(r) == IF r.threw THEN <<>> ELSE r.logged

IsSectionLine(line) == line.kind \in {"header", "link", "unknown"}

(***************************************************************************)
(* C1: the Continue inspector reports a registry server iff some installed *)
(* reference has its command and has arguments that, cut to the length of  *)
(* the server's template, equal the template element by element.           *)
(***************************************************************************)
C1_StructuralPrefixMatch ==
    ContinueOk =>
        \A i \in 1..Len(servers) :
            (servers[i].id \in Range(ReportedIds(continueRes.logged)))
            <=> (\E j \in 1..Len(Installed) : PrefixMatch(Installed[j], servers[i]))

\* a server matched by a reference with extra arguments is reported while a
\* server whose template is longer than the reference is not
C1_Witness ==
    /\ ContinueOk
    /\ \E i \in 1..Len(servers), j \in 1..Len(Installed) :
        /\ Len(servers[i].config.args) > 0
        /\ Len(Installed[j].transport.args) > Len(servers[i].config.args)
        /\ PrefixMatch(Installed[j], servers[i])
        /\ servers[i].id \in Range(ReportedIds(continueRes.logged))
    /\ \E i \in 1..Len(servers), j \in 1..Len(Installed) :
        /\ Installed[j].transport.command = servers[i].config.command
        /\ Len(Installed[j].transport.args) < Len(servers[i].config.args)
        /\ servers[i].id \notin Range(ReportedIds(continueRes.logged))

(***************************************************************************)
(* C2: the Claude inspector reports every key of mcpServers exactly once,  *)
(* as recognized iff it is the id of a registry server and as unknown      *)
(* otherwise, and reports nothing that is not a key.                       *)
(***************************************************************************)
C2_ExactKeyMatch ==
    ClaudeOk =>
        LET entries == EntryLines(claudeRes.logged)
        IN  /\ \A k \in Range(McpKeys) :
                   Cardinality({i \in 1..Len(entries) : entries[i].text = k}) = 1
            /\ \A i \in 1..Len(entries) :
                   /\ entries[i].text \in Range(McpKeys)
                   /\ (entries[i].kind = "link") <=> (entries[i].text \in RegistryIds)

\* a registered key after an unregistered one, both reported
C2_Witness ==
    /\ ClaudeOk
    /\ Len(McpKeys) = 2
    /\ McpKeys[1] \notin RegistryIds
    /\ McpKeys[2] \in RegistryIds
    /\ Len(EntryLines(claudeRes.logged)) = 2

(***************************************************************************)
(* C3: with no client selected run() never fails, whatever the state of    *)
(* the two files: a failing inspector counts as "nothing found", the other *)
(* inspector is still called and what it logged is in the output.          *)
(***************************************************************************)
C3_AllModeSuppresses ==
    client = "none" =>
        /\ pc # "failed"
        /\ error = NoError
        /\ pc \in {"second", "report", "done"} => claudeRes.invoked
        /\ pc \in {"report", "done"} =>
            /\ continueRes.invoked
            /\ SubSeq(out, 1, Len(claudeRes.logged) + Len(continueRes.logged))
                 = claudeRes.logged \o continueRes.logged
            /\ foundServers <=> \/ (~claudeRes.threw /\ claudeRes.value)
                                \/ (~continueRes.threw /\ continueRes.value)

\* Claude's config is not JSON, Continue has a recognized entry
C3_Witness ==
    /\ client = "none" /\ pc = "done"
    /\ claudeFile.io = "ok" /\ ~claudeFile.valid
    /\ claudeRes.threw
    /\ Len(ReportedIds(continueRes.logged)) = 1
    /\ \E i \in 1..Len(out) : out[i].kind = "link"
    /\ foundServers

(***************************************************************************)
(* C4: with a client selected whose config is unreadable or not JSON,      *)
(* run() fails with that error, logs no "No MCP servers" line and does not *)
(* call the other inspector.                                               *)
(***************************************************************************)
C4_SelectedClientFails ==
    /\ (client = "claude" /\ pc # "start" /\ ConfigUnavailable(claudeFile)) =>
        /\ pc = "failed"
        /\ error = ReadError(claudeFile)
        /\ ~HasNoneLine
        /\ ~continueRes.invoked
    /\ (client = "continue" /\ pc # "start" /\ ConfigUnavailable(continueFile)) =>
        /\ pc = "failed"
        /\ error = ReadError(continueFile)
        /\ ~HasNoneLine
        /\ ~claudeRes.invoked

\* --client=claude on a config that is not JSON
C4_Witness ==
    /\ client = "claude"
    /\ claudeFile.io = "ok" /\ ~claudeFile.valid
    /\ pc = "failed"
    /\ error = SyntaxError

(***************************************************************************)
(* C5: an inspector whose file does not exist returns false and logs       *)
(* nothing; every other failure to read or to parse is raised again.       *)
(***************************************************************************)
C5_AbsentFileIsEmpty ==
    /\ claudeRes.invoked =>
        /\ claudeFile.io = "ENOENT" =>
               ~claudeRes.threw /\ ~claudeRes.value /\ claudeRes.logged = <<>>
        /\ ConfigUnavailable(claudeFile) =>
               claudeRes.threw /\ claudeRes.error = ReadError(claudeFile)
    /\ continueRes.invoked =>
        /\ continueFile.io = "ENOENT" =>
               ~continueRes.threw /\ ~continueRes.value /\ continueRes.logged = <<>>
        /\ ConfigUnavailable(continueFile) =>
               continueRes.threw /\ continueRes.error = ReadError(continueFile)

\* one file absent, the other unreadable, both inspectors called
C5_Witness ==
    /\ claudeRes.invoked /\ continueRes.invoked
    /\ claudeFile.io = "ENOENT" /\ ~claudeRes.threw
    /\ continueFile.io = "EACCES" /\ continueRes.threw

(***************************************************************************)
(* C6: when run() ends without failing, foundServers is true iff an        *)
(* inspector that was called reported at least one entry, and the          *)
(* "No MCP servers" line is logged iff foundServers is false.              *)
(***************************************************************************)
C6_FoundAny ==
    pc = "done" =>
        /\ foundServers <=>
               \/ (ClaudeOk /\ Len(EntryLines(claudeRes.logged)) > 0)
               \/ (ContinueOk /\ Len(EntryLines(continueRes.logged)) > 0)
        /\ HasNoneLine <=> ~foundServers

\* both inspectors called, only the first one found something
C6_Witness ==
    /\ pc = "done" /\ client = "none"
    /\ Len(EntryLines(claudeRes.logged)) > 0
    /\ ContinueOk /\ Len(EntryLines(continueRes.logged)) = 0
    /\ foundServers /\ ~HasNoneLine

(***************************************************************************)
(* C7: each inspector lists its entries in the order of the references in  *)
(* the file: for Continue the reported servers follow the order of their   *)
(* matching entries in modelContextProtocolServers (read generously: of    *)
(* two reported servers the earlier one has a matching entry at or before  *)
(* a matching entry of the later one); for Claude the recognized entries   *)
(* come first and each group is in the order of the keys.                  *)
(***************************************************************************)
ServerOf(id) == servers[CHOOSE i \in 1..Len(servers) : servers[i].id = id]

KeyPos(k) == CHOOSE i \in 1..Len(McpKeys) : McpKeys[i] = k

C7_ContinueOrder ==
    ContinueOk =>
        LET v == ReportedIds(continueRes.logged)
        IN  \A i, j \in 1..Len(v) :
                i < j => \E a, b \in 1..Len(Installed) :
                            /\ a <= b
                            /\ PrefixMatch(Installed[a], ServerOf(v[i]))
                            /\ PrefixMatch(Installed[b], ServerOf(v[j]))

C7_ClaudeOrder ==
    ClaudeOk =>
        LET entries == EntryLines(claudeRes.logged)
        IN  \A i, j \in 1..Len(entries) :
                i < j =>
                    /\ ~(entries[i].kind = "unknown" /\ entries[j].kind = "link")
                    /\ entries[i].kind = entries[j].kind =>
                           KeyPos(entries[i].text) < KeyPos(entries[j].text)

C7_FileOrder == C7_ContinueOrder /\ C7_ClaudeOrder

(***************************************************************************)
(* C8: in the Continue inspector the first matching registry server wins:  *)
(* the servers reported are the first matches of the installed references, *)
(* one per reference that matches at all.                                  *)
(***************************************************************************)
HasMatch(ref) == \E i \in 1..Len(servers) : PrefixMatch(ref, servers[i])

FirstMatch(ref) ==
    servers[CHOOSE i \in 1..Len(servers) :
                /\ PrefixMatch(ref, servers[i])
                /\ \A k \in 1..(i - 1) : ~PrefixMatch(ref, servers[k])].id

C8_FirstMatchWins ==
    ContinueOk =>
        Range(ReportedIds(continueRes.logged))
            = {FirstMatch(Installed[j]) :
                  j \in {n \in 1..Len(Installed) : HasMatch(Installed[n])}}

(***************************************************************************)
(* C9: when the file parses but holds no installed-server sub-path (no     *)
(* mcpServers; no experimental or no modelContextProtocolServers in it),   *)
(* the inspector returns false, logs nothing and raises nothing.           *)
(***************************************************************************)
Parses(file) == file.io = "ok" /\ file.valid

C9_MissingSubPathIsEmpty ==
    /\ (claudeRes.invoked /\ Parses(claudeFile)
            /\ ~(claudeFile.config.t = "object" /\ claudeFile.config.hasMcpServers)) =>
        ~claudeRes.threw /\ ~claudeRes.value /\ claudeRes.logged = <<>>
    /\ (continueRes.invoked /\ Parses(continueFile)
            /\ ~(continueFile.config.t = "object"
                    /\ continueFile.config.hasExperimental
                    /\ continueFile.config.hasList)) =>
        ~continueRes.threw /\ ~continueRes.value /\ continueRes.logged = <<>>

(***************************************************************************)
(* C10: an inspector that fails has logged nothing, so with no client      *)
(* selected the section lines of the output are exactly those of the       *)
(* inspectors that succeeded.                                              *)
(***************************************************************************)
C10_NoOutputBeforeFailure ==
    /\ claudeRes.threw => claudeRes.logged = <<>>
    /\ continueRes.threw => continueRes.logged = <<>>
    /\ (client = "none" /\ pc \in {"report", "done"}) =>
           SelectSeq(out, IsSectionLine) = OkLines(claudeRes) \o OkLines(continueRes)

\* Continue fails after parsing (a null config) while Claude listed entries
C10_Witness ==
    /\ client = "none" /\ pc = "done"
    /\ ClaudeOk /\ Len(claudeRes.logged) > 0
    /\ continueRes.threw /\ continueRes.error = TypeError
    /\ SelectSeq(out, IsSectionLine) = claudeRes.logged

====
